---- MODULE Spec2Model ----
(***************************************************************************)
(* Form-structure derivation (formStructureForCreateEdit.ts) and the       *)
(* two-step cascading select (select-2-step.tsx) of the Infrahub frontend. *)
(*                                                                         *)
(* JavaScript values of type `any` (the row, the dropdown options, a field *)
(* value) are tagged records:                                              *)
(*   [tag |-> "undefined"], [tag |-> "null"], [tag |-> "string", s |-> _], *)
(*   [tag |-> "array", items |-> <<..>>], [tag |-> "object", fields |-> f] *)
(* Typed values (schemas, attributes, relationships, select options,      *)
(* field descriptors) are plain records.                                   *)
(***************************************************************************)
EXTENDS Naturals, Sequences, FiniteSets, TLC

VARIABLES
    call,           \* the last call of a form-structure function: its name and arguments
    result,         \* what that call returned
    options,        \* OpsSelect2Step props.options (the parent options)
    value,          \* OpsSelect2Step props.value
    optionsRight,   \* useState: the child options
    selectedLeft,   \* useState: the selected parent option
    selectedRight,  \* useState: the selected child option
    inflight,       \* the object names of the child-option queries awaiting a response
    lastResolved,   \* the object name of the last query whose response was applied
    reported        \* the last value handed to props.onChange, and by whom

selectVars == <<options, value, optionsRight, selectedLeft, selectedRight,
                inflight, lastResolved, reported>>
vars == <<call, result, options, value, optionsRight, selectedLeft, selectedRight,
          inflight, lastResolved, reported>>

-----------------------------------------------------------------------------
(* Bounds of the model *)

MaxRels == 2        \* relationships of the schema handed to the deriver
MaxItems == 2       \* peers in a many-cardinality row entry
MaxOpts == 1        \* entries of a peer's dropdown list
MaxInFlight == 2    \* child-option queries awaiting a response at once

-----------------------------------------------------------------------------
(* JavaScript values *)

Undefined == [tag |-> "undefined"]
Null == [tag |-> "null"]
JsString(s) == [tag |-> "string", s |-> s]
JsArray(items) == [tag |-> "array", items |-> items]
JsObject(fields) == [tag |-> "object", fields |-> fields]
TypeError == [tag |-> "TypeError"]

\* !v
Falsy(v) ==
    \/ v.tag \in {"undefined", "null"}
    \/ v.tag = "string" /\ v.s = ""

\* v[k], v.k
Prop(v, k) ==
    IF v.tag \in {"undefined", "null"} THEN TypeError
    ELSE IF v.tag = "object" /\ k \in DOMAIN v.fields THEN v.fields[k]
    ELSE Undefined

-----------------------------------------------------------------------------
(* formStructureForCreateEdit.ts: getFormStructureForCreateEdit *)

\* The kind -> control-type table of dynamic-control-types (imported, line 5).
getFormInputControlTypeFromSchemaAttributeKind(kind) ==
    CASE kind = "Text" -> "text"
      [] kind = "Number" -> "number"
      [] kind = "Boolean" -> "checkbox"
      [] OTHER -> "text"

\* attribute.enum?.map(row => ({name: row, id: row}))
EnumOptions(attribute) ==
    IF attribute.hasEnum
    THEN [i \in 1..Len(attribute.enum) |-> [name |-> attribute.enum[i], id |-> attribute.enum[i]]]
    ELSE <<>>

\* The descriptor pushed for one attribute.
AttributeField(attribute, row) ==
    [ name |-> attribute.name \o ".value",
      kind |-> attribute.kind,
      type |-> IF attribute.hasEnum THEN "select"
               ELSE getFormInputControlTypeFromSchemaAttributeKind(attribute.kind),
      label |-> IF attribute.label # "" THEN attribute.label ELSE attribute.name,
      value |-> IF ~Falsy(row) /\ ~Falsy(Prop(row, attribute.name))
                THEN Prop(Prop(row, attribute.name), "value")
                ELSE JsString(""),
      options |-> EnumOptions(attribute),
      required |-> IF attribute.optional = "false" THEN "Required" ELSE "" ]

\* dropdownOptions[schemaKindNameMap[relationship.peer]]
PeerDropdown(relationship, dropdownOptions, schemaKindNameMap) ==
    IF relationship.peer \in DOMAIN schemaKindNameMap
    THEN Prop(dropdownOptions, schemaKindNameMap[relationship.peer])
    ELSE Undefined

\* dropdown rows mapped to {name: row.display_label, id: row.id}
DropdownSelectOptions(list) ==
    [i \in 1..Len(list.items) |->
        [name |-> Prop(list.items[i], "display_label").s,
         id |-> Prop(list.items[i], "id").s]]

\* (generic.used_by || []).forEach(name => { schemas.find(s => s.kind === name) ... push })
RECURSIVE UsedByOptions(_, _)
UsedByOptions(used_by, schemas) ==
    IF used_by = <<>> THEN <<>>
    ELSE LET name == Head(used_by)
             found == {i \in 1..Len(schemas) : schemas[i].kind = name}
         IN  (IF found # {}
              THEN LET relatedSchema == schemas[CHOOSE i \in found : \A j \in found : i <= j]
                   IN  <<[id |-> relatedSchema.name, name |-> name]>>
              ELSE <<>>)
             \o UsedByOptions(Tail(used_by), schemas)

\* generics.find(g => g.kind === relationship.peer) and the options of its used_by
GenericOptions(relationship, schemas, generics) ==
    LET found == {i \in 1..Len(generics) : generics[i].kind = relationship.peer}
    IN  IF found # {}
        THEN LET generic == generics[CHOOSE i \in found : \A j \in found : i <= j]
             IN  UsedByOptions(IF generic.hasUsedBy THEN generic.used_by ELSE <<>>, schemas)
        ELSE <<>>

\* A variant that consults the peer's dropdown list for inherited relationships too.
RelationshipOptionsIgnoringInherited(relationship, schemas, generics, dropdownOptions, schemaKindNameMap) ==
    IF ~Falsy(PeerDropdown(relationship, dropdownOptions, schemaKindNameMap))
    THEN DropdownSelectOptions(PeerDropdown(relationship, dropdownOptions, schemaKindNameMap))
    ELSE GenericOptions(relationship, schemas, generics)

\* The options of one relationship's descriptor.
RelationshipOptions(relationship, schemas, generics, dropdownOptions, schemaKindNameMap) ==
    IF ~relationship.inherited
       /\ ~Falsy(PeerDropdown(relationship, dropdownOptions, schemaKindNameMap))
    THEN DropdownSelectOptions(PeerDropdown(relationship, dropdownOptions, schemaKindNameMap))
    ELSE GenericOptions(relationship, schemas, generics)

\* A variant that tests the inherited flag before the cardinality.
RelationshipTypeInheritedFirst(relationship) ==
    IF relationship.inherited THEN "select2step"
    ELSE IF relationship.cardinality = "many" THEN "multiselect"
    ELSE "select"

\* The control type of one relationship's descriptor.
RelationshipType(relationship) ==
    IF relationship.cardinality = "many" THEN "multiselect"
    ELSE IF relationship.inherited THEN "select2step"
    ELSE "select"

\* value.map(item => item.id)
ItemIds(v) ==
    IF v.tag = "array"
    THEN JsArray([i \in 1..Len(v.items) |-> Prop(v.items[i], "id")])
    ELSE TypeError

\* A variant that hands back the raw row entry whatever the relationship.
RelationshipValueRaw(relationship, row) ==
    IF Falsy(row) \/ Falsy(Prop(row, relationship.name)) THEN JsString("")
    ELSE Prop(row, relationship.name)

\* The initial value of one relationship's descriptor.
RelationshipValue(relationship, row) ==
    IF Falsy(row) \/ Falsy(Prop(row, relationship.name)) THEN JsString("")
    ELSE LET v == Prop(row, relationship.name)
         IN  IF relationship.cardinality = "one" /\ ~relationship.inherited THEN Prop(v, "id")
             ELSE IF relationship.cardinality = "one" /\ relationship.inherited THEN v
             ELSE ItemIds(v)

\* The descriptor pushed for one relationship.
RelationshipField(relationship, schemas, generics, dropdownOptions, schemaKindNameMap, row) ==
    [ name |-> relationship.name \o (IF relationship.cardinality = "one" THEN ".id" ELSE ".list"),
      kind |-> "String",
      type |-> RelationshipType(relationship),
      label |-> IF relationship.label # "" THEN relationship.label ELSE relationship.name,
      value |-> RelationshipValue(relationship, row),
      options |-> RelationshipOptions(relationship, schemas, generics, dropdownOptions,
                                      schemaKindNameMap) ]

\* A variant that keeps every relationship, whatever its kind.
AttributeKindRelationshipsUnfiltered(relationships) == relationships

\* schema.relationships?.filter(relationship => relationship.kind === "Attribute")
RECURSIVE AttributeKindRelationships(_)
AttributeKindRelationships(relationships) ==
    IF relationships = <<>> THEN <<>>
    ELSE (IF Head(relationships).kind = "Attribute" THEN <<Head(relationships)>> ELSE <<>>)
         \o AttributeKindRelationships(Tail(relationships))

\* What a call returns: the list, or the exception it raised.
Returned(fields) == [status |-> "ok", fields |-> fields]
Thrown(error) == [status |-> error, fields |-> <<>>]

\* The body after the guard: attribute descriptors, then relationship descriptors.
DeriveFields(schema, schemas, generics, dropdownOptions, schemaKindNameMap, row) ==
    LET attributes == IF schema.hasAttributes THEN schema.attributes ELSE <<>>
        relationships == IF schema.hasRelationships
                         THEN AttributeKindRelationships(schema.relationships) ELSE <<>>
    IN  Returned(
          [i \in 1..Len(attributes) |-> AttributeField(attributes[i], row)]
          \o [i \in 1..Len(relationships) |->
                RelationshipField(relationships[i], schemas, generics, dropdownOptions,
                                  schemaKindNameMap, row)])

\* A variant without the guard on the schema: reading schema.attributes throws.
getFormStructureForCreateEditUnguarded(schema, schemas, generics, dropdownOptions, schemaKindNameMap, row) ==
    IF schema.absent THEN Thrown("TypeError")
    ELSE DeriveFields(schema, schemas, generics, dropdownOptions, schemaKindNameMap, row)

\* genericSchemaMap, the sixth parameter, is never read and is left out.
getFormStructureForCreateEdit(schema, schemas, generics, dropdownOptions, schemaKindNameMap, row) ==
    IF schema.absent THEN Returned(<<>>)
    ELSE DeriveFields(schema, schemas, generics, dropdownOptions, schemaKindNameMap, row)

-----------------------------------------------------------------------------
(* formStructureForCreateEdit.ts: getFormStructureForMetaEdit *)

\* A string as the tuple of its characters, for split.
Chars(f) ==
    CASE f = "owner" -> <<"o","w","n","e","r">>
      [] f = "source" -> <<"s","o","u","r","c","e">>
      [] f = "_relation__owner" ->
            <<"_","r","e","l","a","t","i","o","n","_","_","o","w","n","e","r">>
      [] f = "_relation__source" ->
            <<"_","r","e","l","a","t","i","o","n","_","_","s","o","u","r","c","e">>
      [] f = "is_visible" -> <<"i","s","_","v","i","s","i","b","l","e">>
      [] f = "is_protected" -> <<"i","s","_","p","r","o","t","e","c","t","e","d">>
      [] f = "_relation__is_visible" ->
            <<"_","r","e","l","a","t","i","o","n","_","_","i","s","_","v","i","s","i","b","l","e">>
      [] f = "_relation__is_protected" ->
            <<"_","r","e","l","a","t","i","o","n","_","_","i","s","_","p","r","o","t","e","c","t","e","d">>

\* The string of a tuple of characters.
RECURSIVE Text(_)
Text(chars) == IF chars = <<>> THEN "" ELSE Head(chars) \o Text(Tail(chars))

\* String.prototype.split(sep): the pieces between the separators, empty ones kept.
RECURSIVE Split(_, _, _)
Split(chars, sep, piece) ==
    IF chars = <<>> THEN <<piece>>
    ELSE IF Head(chars) = sep THEN <<piece>> \o Split(Tail(chars), sep, <<>>)
    ELSE Split(Tail(chars), sep, Append(piece, Head(chars)))

\* .filter(r => !!r)
RECURSIVE NonEmpty(_)
NonEmpty(pieces) ==
    IF pieces = <<>> THEN <<>>
    ELSE (IF Head(pieces) # <<>> THEN <<Head(pieces)>> ELSE <<>>) \o NonEmpty(Tail(pieces))

\* Array.prototype.join(sep)
RECURSIVE Join(_, _)
Join(pieces, sep) ==
    IF pieces = <<>> THEN ""
    ELSE IF Len(pieces) = 1 THEN Text(Head(pieces))
    ELSE Text(Head(pieces)) \o sep \o Join(Tail(pieces), sep)

\* f.split("_").filter(r => !!r).join(" ")
MetaLabel(f) == Join(NonEmpty(Split(Chars(f), "_", <<>>)), " ")

sourceOwnerFields(type) ==
    IF type = "attribute" THEN <<"owner", "source">>
    ELSE <<"_relation__owner", "_relation__source">>

booleanFields(type) ==
    IF type = "attribute" THEN <<"is_visible", "is_protected">>
    ELSE <<"_relation__is_visible", "_relation__is_protected">>

relatedObjects(f) ==
    CASE f = "source" -> "DataSource"
      [] f = "owner" -> "DataOwner"
      [] f = "_relation__source" -> "DataSource"
      [] f = "_relation__owner" -> "DataOwner"

\* schemaList.filter(inherit_from includes relatedObjects[f]).map({name: kind, id: name})
RECURSIVE schemaOptions(_, _)
schemaOptions(schemaList, f) ==
    IF schemaList = <<>> THEN <<>>
    ELSE LET schema == Head(schemaList)
             inherit_from == IF schema.hasInheritFrom THEN schema.inherit_from ELSE <<>>
         IN  (IF \E i \in 1..Len(inherit_from) : inherit_from[i] = relatedObjects(f)
              THEN <<[name |-> schema.kind, id |-> schema.name]>>
              ELSE <<>>)
             \o schemaOptions(Tail(schemaList), f)

\* row?.[attributeOrRelationshipName]?.[f]
MetaValue(row, attributeOrRelationshipName, f) ==
    LET entry == IF row.tag \in {"undefined", "null"} THEN Undefined
                 ELSE Prop(row, attributeOrRelationshipName)
    IN  IF entry.tag \in {"undefined", "null"} THEN Undefined ELSE Prop(entry, f)

sourceOwnerFormFields(row, type, attributeOrRelationshipName, schemaList) ==
    [i \in 1..Len(sourceOwnerFields(type)) |->
        LET f == sourceOwnerFields(type)[i]
        IN  [ name |-> attributeOrRelationshipName \o "." \o f,
              kind |-> "Text",
              isAttribute |-> FALSE,
              isRelationship |-> FALSE,
              type |-> "select2step",
              label |-> MetaLabel(f),
              value |-> MetaValue(row, attributeOrRelationshipName, f),
              options |-> schemaOptions(schemaList, f) ]]

booleanFormFields(row, type, attributeOrRelationshipName) ==
    [i \in 1..Len(booleanFields(type)) |->
        LET f == booleanFields(type)[i]
        IN  [ name |-> attributeOrRelationshipName \o "." \o f,
              kind |-> "Checkbox",
              isAttribute |-> FALSE,
              isRelationship |-> FALSE,
              type |-> "checkbox",
              label |-> MetaLabel(f),
              value |-> MetaValue(row, attributeOrRelationshipName, f),
              options |-> <<>> ]]

\* A variant that returns the select fields only.
getFormStructureForMetaEditSelectsOnly(row, type, attributeOrRelationshipName, schemaList) ==
    Returned(sourceOwnerFormFields(row, type, attributeOrRelationshipName, schemaList))

getFormStructureForMetaEdit(row, type, attributeOrRelationshipName, schemaList) ==
    Returned(sourceOwnerFormFields(row, type, attributeOrRelationshipName, schemaList)
             \o booleanFormFields(row, type, attributeOrRelationshipName))

-----------------------------------------------------------------------------
(* The inputs the form-structure functions are called with *)

Attribute(name, kind, hasEnum, enum, label, optional) ==
    [name |-> name, kind |-> kind, hasEnum |-> hasEnum, enum |-> enum,
     label |-> label, optional |-> optional]

Relationship(name, peer, kind, cardinality, inherited, label) ==
    [name |-> name, peer |-> peer, kind |-> kind, cardinality |-> cardinality,
     inherited |-> inherited, label |-> label]

NodeSchema(kind, name, hasInheritFrom, inherit_from) ==
    [kind |-> kind, name |-> name, hasInheritFrom |-> hasInheritFrom,
     inherit_from |-> inherit_from]

GenericSchema(kind, hasUsedBy, used_by) ==
    [kind |-> kind, hasUsedBy |-> hasUsedBy, used_by |-> used_by]

AttrPool ==
    << Attribute("name", "Text", FALSE, <<>>, "Name", "false"),
       Attribute("status", "Text", TRUE, <<"active", "down">>, "", "true") >>

\* Tag is a node kind, Group a generic kind; "Component" relationships get no field.
RelPool ==
    << Relationship("site", "Tag", "Attribute", "one", FALSE, "Site"),
       Relationship("owner", "Group", "Attribute", "one", TRUE, ""),
       Relationship("parts", "Tag", "Component", "many", FALSE, ""),
       Relationship("tags", "Tag", "Attribute", "many", FALSE, "Tags"),
       Relationship("members", "Group", "Attribute", "many", TRUE, ""),
       Relationship("role", "Tag", "Attribute", "one", TRUE, ""),
       Relationship("primary", "Group", "Attribute", "one", FALSE, ""),
       Relationship("labels", "Tag", "Attribute", "many", TRUE, ""),
       Relationship("groups", "Group", "Attribute", "many", FALSE, "") >>

\* The members of a set of indices, in increasing order.
RECURSIVE Ascending(_)
Ascending(S) ==
    IF S = {} THEN <<>>
    ELSE LET m == CHOOSE i \in S : \A j \in S : i <= j
         IN  <<m>> \o Ascending(S \ {m})

Prefixes(pool) == {SubSeq(pool, 1, n) : n \in 0..Len(pool)}

RelationshipLists ==
    { [i \in 1..Cardinality(S) |-> RelPool[Ascending(S)[i]]] :
        S \in {T \in SUBSET (1..Len(RelPool)) : Cardinality(T) <= MaxRels} }

AbsentSchema ==
    [absent |-> TRUE, hasAttributes |-> FALSE, attributes |-> <<>>,
     hasRelationships |-> FALSE, relationships |-> <<>>]

SchemaInputs ==
    {AbsentSchema}
    \cup {[absent |-> FALSE, hasAttributes |-> FALSE, attributes |-> <<>>,
           hasRelationships |-> FALSE, relationships |-> <<>>]}
    \cup {[absent |-> FALSE, hasAttributes |-> TRUE, attributes |-> a,
           hasRelationships |-> TRUE, relationships |-> r] :
            a \in Prefixes(AttrPool), r \in RelationshipLists}

Peer(id) == JsObject([k \in {"id", "display_label"} |->
                        IF k = "id" THEN JsString(id) ELSE JsString("label of " \o id)])

\* The row entry of a relationship with n peers, shaped by its cardinality.
RowEntry(relationship, n) ==
    IF relationship.cardinality = "one"
    THEN (IF n = 0 THEN Null ELSE Peer(relationship.name \o "-1"))
    ELSE JsArray([i \in 1..n |-> Peer(relationship.name \o "-" \o ToString(i))])

RelIndex(name) == CHOOSE i \in 1..Len(RelPool) : RelPool[i].name = name

\* A row holding the given relationships (with n peers each) and the given attributes.
Row(relNames, attrNames, n) ==
    JsObject([k \in relNames \cup attrNames |->
                IF k \in attrNames
                THEN JsObject([v \in {"value"} |-> JsString("value of " \o k)])
                ELSE RowEntry(RelPool[RelIndex(k)], n)])

RelNames == {RelPool[i].name : i \in 1..Len(RelPool)}
OddRelNames == {RelPool[i].name : i \in {j \in 1..Len(RelPool) : j % 2 = 1}}

RowInputs ==
    { Undefined,
      Row({}, {}, 0),
      Row(RelNames, {"name"}, 0),
      Row(RelNames, {"name", "status"}, MaxItems),
      Row(OddRelNames, {"status"}, 1),
      Row(RelNames \ OddRelNames, {}, MaxItems) }

schemaKindNameMapInput == [k \in {"Tag", "Group"} |-> IF k = "Tag" THEN "tag" ELSE "group"]

DropdownList(peerName, n) ==
    JsArray([i \in 1..n |-> Peer(peerName \o "-" \o ToString(i))])

DropdownInputs ==
    {JsObject([k \in {} |-> Null])}
    \cup {JsObject([k \in keys |-> DropdownList(k, n)]) :
            keys \in {{"tag"}, {"tag", "group"}}, n \in 0..MaxOpts}

SchemaPool ==
    << NodeSchema("Device", "device", TRUE, <<"DataOwner">>),
       NodeSchema("Rack", "rack", TRUE, <<"DataSource", "DataOwner">>),
       NodeSchema("account", "account", FALSE, <<>>) >>

SchemasInputs == Prefixes(SchemaPool)

UsedByPool == <<"Rack", "account", "Device">>

GenericsInputs ==
    { <<>>,
      <<GenericSchema("Interface", TRUE, <<"Device">>), GenericSchema("Group", FALSE, <<>>)>> }
    \cup { <<GenericSchema("Interface", TRUE, <<"Device">>), GenericSchema("Group", TRUE, u)>> :
             u \in Prefixes(UsedByPool) }

CreateEditCalls ==
    { [fn |-> "getFormStructureForCreateEdit", schema |-> schema, schemas |-> schemas,
       generics |-> generics, dropdownOptions |-> dropdownOptions,
       schemaKindNameMap |-> schemaKindNameMapInput, row |-> row] :
        schema \in SchemaInputs, schemas \in SchemasInputs, generics \in GenericsInputs,
        dropdownOptions \in DropdownInputs, row \in RowInputs }

MetaRow(name, fields) ==
    JsObject([k \in {name} |-> JsObject([f \in fields |-> Peer(f \o " of " \o name)])])

MetaRowInputs ==
    { Undefined,
      JsObject([k \in {} |-> Null]),
      MetaRow("name", {"owner", "is_protected"}),
      MetaRow("site", {"_relation__source", "_relation__is_visible"}) }

MetaEditCalls ==
    { [fn |-> "getFormStructureForMetaEdit", row |-> row, type |-> type,
       attributeOrRelationshipName |-> name, schemaList |-> schemaList] :
        row \in MetaRowInputs, type \in {"attribute", "relationship"},
        name \in {"name", "site"}, schemaList \in SchemasInputs }

-----------------------------------------------------------------------------
(* Calls of the form-structure functions *)

Pending == [status |-> "pending", fields |-> <<>>]

\* The two-step select before it is mounted.
Unmounted ==
    /\ options = <<>>
    /\ value = Undefined
    /\ optionsRight = <<>>
    /\ selectedLeft = Null
    /\ selectedRight = Null
    /\ inflight = <<>>
    /\ lastResolved = ""
    /\ reported = [by |-> "nobody", parent |-> "", child |-> ""]

InitForm ==
    /\ call \in CreateEditCalls \cup MetaEditCalls
    /\ result = Pending
    /\ Unmounted

CallCreateEdit ==
    /\ call.fn = "getFormStructureForCreateEdit"
    /\ result = Pending
    /\ result' = getFormStructureForCreateEdit(call.schema, call.schemas, call.generics,
                     call.dropdownOptions, call.schemaKindNameMap, call.row)
    /\ UNCHANGED <<call, selectVars>>

CallMetaEdit ==
    /\ call.fn = "getFormStructureForMetaEdit"
    /\ result = Pending
    /\ result' = getFormStructureForMetaEdit(call.row, call.type,
                     call.attributeOrRelationshipName, call.schemaList)
    /\ UNCHANGED <<call, selectVars>>

NextForm == CallCreateEdit \/ CallMetaEdit

SpecForm == InitForm /\ [][NextForm]_vars

-----------------------------------------------------------------------------
(* Properties of getFormStructureForCreateEdit and getFormStructureForMetaEdit *)

CreateEditReturned == call.fn = "getFormStructureForCreateEdit" /\ result # Pending
MetaEditReturned == call.fn = "getFormStructureForMetaEdit" /\ result # Pending

\* The positions, in the schema handed over, of the relationships of kind "Attribute".
AttributeKindPositions ==
    {i \in 1..Len(call.schema.relationships) : call.schema.relationships[i].kind = "Attribute"}

\* Where the descriptor of the relationship at position i is expected in the result.
DescriptorPosition(i) ==
    Len(call.schema.attributes) + Cardinality({j \in AttributeKindPositions : j <= i})

\* The row's entry for a name: Undefined when the row is absent or lacks the key.
EntryOf(name) ==
    IF call.row.tag = "object" /\ name \in DOMAIN call.row.fields
    THEN call.row.fields[name]
    ELSE Undefined

\* C1: for a schema that is not absent the result holds one descriptor per
\* attribute, in schema order, followed by one descriptor per relationship of
\* kind "Attribute", in schema order, and nothing else.
C1_OneDescriptorPerField ==
    (CreateEditReturned /\ ~call.schema.absent) =>
        /\ result.status = "ok"
        /\ Len(result.fields) =
              Len(call.schema.attributes) + Cardinality(AttributeKindPositions)
        /\ \A i \in 1..Len(call.schema.attributes) :
              result.fields[i].name = call.schema.attributes[i].name \o ".value"
        /\ \A i \in AttributeKindPositions :
              result.fields[DescriptorPosition(i)].name \in
                  { call.schema.relationships[i].name \o ".id",
                    call.schema.relationships[i].name \o ".list" }

\* A call returned for a schema with two attributes and a "Component" relationship
\* ahead of an "Attribute" one.
C1_Witness ==
    /\ CreateEditReturned
    /\ ~call.schema.absent
    /\ Len(call.schema.attributes) = 2
    /\ Len(call.schema.relationships) = 2
    /\ call.schema.relationships[1].kind = "Component"
    /\ call.schema.relationships[2].kind = "Attribute"
    /\ Len(result.fields) = 3

\* C2: the control type of a relationship's descriptor is "multiselect" for
\* cardinality many (inherited or not), "select2step" for an inherited relationship
\* of cardinality one and "select" for any other of cardinality one, whatever the
\* row, the dropdown options, the schemas and the generics are.
C2_ControlTypeByCardinalityAndInheritance ==
    (CreateEditReturned /\ ~call.schema.absent) =>
        \A i \in AttributeKindPositions :
            LET relationship == call.schema.relationships[i]
                type == result.fields[DescriptorPosition(i)].type
            IN  /\ relationship.cardinality = "many" => type = "multiselect"
                /\ (relationship.cardinality = "one" /\ relationship.inherited)
                      => type = "select2step"
                /\ (relationship.cardinality = "one" /\ ~relationship.inherited)
                      => type = "select"

\* A call returned for an inherited many-cardinality relationship, with a row and
\* dropdown options at hand.
C2_Witness ==
    /\ CreateEditReturned
    /\ ~call.schema.absent
    /\ call.row # Undefined
    /\ call.dropdownOptions.fields # <<>>
    /\ \E i \in AttributeKindPositions :
          /\ call.schema.relationships[i].cardinality = "many"
          /\ call.schema.relationships[i].inherited
          /\ result.fields[DescriptorPosition(i)].type = "multiselect"

\* C3: with an entry in the row, the initial value is the entry's id (one, not
\* inherited), the raw entry (one, inherited) or the ids of the entry's items, in
\* order (many); with no row, or no entry in it (none, or null), it is "".
C3_InitialValueFromRow ==
    (CreateEditReturned /\ ~call.schema.absent) =>
        \A i \in AttributeKindPositions :
            LET relationship == call.schema.relationships[i]
                entry == EntryOf(relationship.name)
                v == result.fields[DescriptorPosition(i)].value
            IN  IF entry \in {Undefined, Null} THEN v = JsString("")
                ELSE IF relationship.cardinality = "one" /\ ~relationship.inherited
                     THEN v = entry.fields["id"]
                ELSE IF relationship.cardinality = "one" /\ relationship.inherited
                     THEN v = entry
                ELSE /\ v.tag = "array"
                     /\ Len(v.items) = Len(entry.items)
                     /\ \A k \in 1..Len(entry.items) : v.items[k] = entry.items[k].fields["id"]

\* A call returned for a many-cardinality relationship with several peers in the
\* row, beside a one-cardinality relationship with a peer.
C3_Witness ==
    /\ CreateEditReturned
    /\ ~call.schema.absent
    /\ \E i, j \in AttributeKindPositions :
          /\ call.schema.relationships[i].cardinality = "many"
          /\ EntryOf(call.schema.relationships[i].name).tag = "array"
          /\ Len(EntryOf(call.schema.relationships[i].name).items) >= 2
          /\ Len(result.fields[DescriptorPosition(i)].value.items) >= 2
          /\ call.schema.relationships[j].cardinality = "one"
          /\ ~call.schema.relationships[j].inherited
          /\ EntryOf(call.schema.relationships[j].name).tag = "object"

\* C4 as stated: the metadata-edit deriver returns six descriptors.
C4_SixDescriptors ==
    MetaEditReturned => Len(result.fields) = 6

\* C4, amended: the metadata-edit deriver returns four descriptors, the two-step
\* selects of owner and source followed by the checkboxes of is_visible and
\* is_protected (each prefixed with _relation__ for a relationship).
C4_FourDescriptors ==
    MetaEditReturned =>
        LET prefix == call.attributeOrRelationshipName \o "."
                      \o (IF call.type = "attribute" THEN "" ELSE "_relation__")
        IN  /\ result.status = "ok"
            /\ Len(result.fields) = 4
            /\ result.fields[1].name = prefix \o "owner"
            /\ result.fields[2].name = prefix \o "source"
            /\ result.fields[3].name = prefix \o "is_visible"
            /\ result.fields[4].name = prefix \o "is_protected"
            /\ \A i \in {1, 2} : result.fields[i].type = "select2step"
            /\ \A i \in {3, 4} : result.fields[i].type = "checkbox"

\* A metadata-edit call returned for a relationship, with a row and schemas at hand.
C4_Witness ==
    /\ MetaEditReturned
    /\ call.type = "relationship"
    /\ call.row # Undefined
    /\ Len(call.schemaList) = Len(SchemaPool)
    /\ Len(result.fields[1].options) = 2

\* The generic schemas whose kind is the relationship's peer.
GenericsOf(relationship) ==
    {g \in 1..Len(call.generics) : call.generics[g].kind = relationship.peer}

\* The used_by list of the relationship's generic peer.
UsedByOf(relationship) ==
    LET generic == call.generics[CHOOSE g \in GenericsOf(relationship) : TRUE]
    IN  IF generic.hasUsedBy THEN generic.used_by ELSE <<>>

\* Whether dropdown options exist for the relationship's peer.
DropdownExists(relationship) ==
    call.schemaKindNameMap[relationship.peer] \in DOMAIN call.dropdownOptions.fields

DropdownOf(relationship) ==
    call.dropdownOptions.fields[call.schemaKindNameMap[relationship.peer]].items

\* The options are the peer's dropdown list, entry by entry.
OptionsAreDropdown(relationship, opts) ==
    /\ Len(opts) = Len(DropdownOf(relationship))
    /\ \A k \in 1..Len(opts) :
          /\ opts[k].id = DropdownOf(relationship)[k].fields["id"].s
          /\ opts[k].name = DropdownOf(relationship)[k].fields["display_label"].s

\* C5 as stated: in the generic case there is one option for every kind of used_by.
C5_OneOptionPerUsedByKind ==
    (CreateEditReturned /\ ~call.schema.absent) =>
        \A i \in AttributeKindPositions :
            LET relationship == call.schema.relationships[i]
                opts == result.fields[DescriptorPosition(i)].options
            IN  IF ~relationship.inherited /\ DropdownExists(relationship)
                THEN OptionsAreDropdown(relationship, opts)
                ELSE IF GenericsOf(relationship) # {}
                THEN /\ Len(opts) = Len(UsedByOf(relationship))
                     /\ \A k \in 1..Len(opts) : opts[k].name = UsedByOf(relationship)[k]
                ELSE opts = <<>>

\* The positions of used_by whose kind has a schema among the schemas handed over.
KnownUsedBy(relationship) ==
    {k \in 1..Len(UsedByOf(relationship)) :
        \E s \in 1..Len(call.schemas) : call.schemas[s].kind = UsedByOf(relationship)[k]}

\* C5, amended: in the generic case there is one option for every kind of used_by
\* that has a schema among the schemas handed over, in used_by order, named by
\* the kind and identified by that schema's name; kinds without a schema get none.
C5_OneOptionPerKnownUsedByKind ==
    (CreateEditReturned /\ ~call.schema.absent) =>
        \A i \in AttributeKindPositions :
            LET relationship == call.schema.relationships[i]
                opts == result.fields[DescriptorPosition(i)].options
            IN  IF ~relationship.inherited /\ DropdownExists(relationship)
                THEN OptionsAreDropdown(relationship, opts)
                ELSE IF GenericsOf(relationship) # {}
                THEN /\ Len(opts) = Cardinality(KnownUsedBy(relationship))
                     /\ \A k \in KnownUsedBy(relationship) :
                          LET o == opts[Cardinality({m \in KnownUsedBy(relationship) : m <= k})]
                          IN  /\ o.name = UsedByOf(relationship)[k]
                              /\ \E s \in 1..Len(call.schemas) :
                                    /\ call.schemas[s].kind = o.name
                                    /\ call.schemas[s].name = o.id
                ELSE opts = <<>>

\* A call returned for an inherited relationship to a generic peer that has
\* dropdown options and whose used_by names kinds with and without a schema.
C5_Witness ==
    /\ CreateEditReturned
    /\ ~call.schema.absent
    /\ \E i \in AttributeKindPositions :
          LET relationship == call.schema.relationships[i]
          IN  /\ relationship.inherited
              /\ DropdownExists(relationship)
              /\ GenericsOf(relationship) # {}
              /\ Len(UsedByOf(relationship)) = 3
              /\ Cardinality(KnownUsedBy(relationship)) = 2
              /\ Len(result.fields[DescriptorPosition(i)].options) = 2

\* C9: with an absent schema the deriver returns the empty list and raises nothing,
\* whatever the other arguments are.
C9_AbsentSchemaGivesEmptyList ==
    (CreateEditReturned /\ call.schema.absent) =>
        /\ result.status = "ok"
        /\ result.fields = <<>>

\* A call returned for an absent schema with a row, schemas, generics and dropdown
\* options at hand.
C9_Witness ==
    /\ CreateEditReturned
    /\ call.schema.absent
    /\ call.row # Undefined
    /\ call.schemas # <<>>
    /\ call.generics # <<>>
    /\ call.dropdownOptions.fields # <<>>
    /\ result.fields = <<>>

-----------------------------------------------------------------------------
(* select-2-step.tsx: OpsSelect2Step *)

\* The field the component renders: the inherited one-cardinality relationship
\* "owner" to the generic Group, used by every kind of UsedByPool.
TwoStepCall ==
    [fn |-> "getFormStructureForCreateEdit",
     schema |-> [absent |-> FALSE, hasAttributes |-> TRUE, attributes |-> <<>>,
                 hasRelationships |-> TRUE, relationships |-> <<RelPool[2]>>],
     schemas |-> SchemaPool,
     generics |-> <<GenericSchema("Interface", TRUE, <<"Device">>),
                    GenericSchema("Group", TRUE, UsedByPool)>>,
     dropdownOptions |-> JsObject([k \in {} |-> Null]),
     schemaKindNameMap |-> schemaKindNameMapInput,
     row |-> Undefined]

\* The nodes the server holds for an object name.
ServerNodes(objectName) ==
    CASE objectName = "device" -> <<Peer("device-1"), Peer("device-2")>>
      [] objectName = "rack" -> <<Peer("rack-1")>>
      [] objectName = "account" -> <<Peer("account-1"), Peer("account-2")>>
      [] OTHER -> <<>>

\* options.map(option => ({name: option.display_label, id: option.id})) of the
\* nodes of data[objectName].edges
NodeOptions(objectName) ==
    [i \in 1..Len(ServerNodes(objectName)) |->
        [name |-> Prop(ServerNodes(objectName)[i], "display_label").s,
         id |-> Prop(ServerNodes(objectName)[i], "id").s]]

Option(o) == [tag |-> "option", id |-> o.id, name |-> o.name]

\* selectedLeft?.id, selectedRight?.id ("" standing for undefined)
IdOf(selected) == IF selected.tag = "option" THEN selected.id ELSE ""

\* value.parent, value.child ("" standing for undefined)
ValueField(v, k) ==
    IF v.tag = "object" /\ Prop(v, k).tag = "string" THEN Prop(v, k).s ELSE ""

TwoStepValue(parent, child) ==
    JsObject([k \in {"parent", "child"} |->
                IF k = "parent" THEN JsString(parent) ELSE JsString(child)])

\* value.parent ? options.find(option => option.name === value.parent) : null
FindLeft(opts, v) ==
    IF ValueField(v, "parent") = "" THEN Null
    ELSE LET found == {i \in 1..Len(opts) : opts[i].name = ValueField(v, "parent")}
         IN  IF found = {} THEN Undefined
             ELSE Option(opts[CHOOSE i \in found : \A j \in found : i <= j])

\* value.child ? optionsRight.find(option => option.id === value.child) : null
FindRight(right, v) ==
    IF ValueField(v, "child") = "" THEN Null
    ELSE LET found == {i \in 1..Len(right) : right[i].id = ValueField(v, "child")}
         IN  IF found = {} THEN Undefined
             ELSE Option(right[CHOOSE i \in found : \A j \in found : i <= j])

\* options.filter(option => option.id === value.id)[0]
PickLeft(opts, id) ==
    LET found == {i \in 1..Len(opts) : opts[i].id = id}
    IN  IF found = {} THEN Undefined
        ELSE Option(opts[CHOOSE i \in found : \A j \in found : i <= j])

\* setRightDropdownOptions up to its await: nothing without an object name, else
\* one more query in flight; the queries already in flight stay.
Dispatched(queries, objectName) ==
    IF objectName = "" THEN queries ELSE Append(queries, objectName)

\* The effect on [selectedLeft?.id]: runs when the id differs from the last render's.
AfterLeftChange(queries, before, after) ==
    IF IdOf(after) = IdOf(before) THEN queries ELSE Dispatched(queries, IdOf(after))

\* A variant with a generation check: a response is dropped unless it was asked for
\* the parent selected when it arrives.
OptionsAfterResponseChecked(right, selected, objectName) ==
    IF objectName = IdOf(selected) THEN NodeOptions(objectName) ELSE right

\* setRightDropdownOptions after its await: the response's options replace the
\* child options, whatever is selected by then.
OptionsAfterResponse(right, selected, objectName) == NodeOptions(objectName)

Without(queries, k) == SubSeq(queries, 1, k - 1) \o SubSeq(queries, k + 1, Len(queries))

\* The values the form mounts the component with: "" (nothing in the row), the raw
\* row entry, and {parent, child} pairs.
MountValues ==
    { JsString(""),
      Peer("device-1"),
      TwoStepValue("Device", "device-1"),
      TwoStepValue("account", "account-2") }

\* The first render and the effects that follow it.
InitSelect ==
    /\ call = TwoStepCall
    /\ result = getFormStructureForCreateEdit(call.schema, call.schemas, call.generics,
                    call.dropdownOptions, call.schemaKindNameMap, call.row)
    /\ options = result.fields[1].options
    /\ value \in MountValues
    /\ optionsRight = <<>>
    /\ selectedLeft = FindLeft(options, value)
    /\ selectedRight = FindRight(<<>>, value)
    /\ reported = IF Falsy(value) THEN [by |-> "nobody", parent |-> "", child |-> ""]
                  ELSE [by |-> "mount", parent |-> ValueField(value, "parent"),
                        child |-> ValueField(value, "child")]
    /\ inflight = Dispatched(<<>>, IdOf(selectedLeft))
    /\ lastResolved = ""

\* The left OpsSelect's onChange.
SelectParent ==
    \E i \in 1..Len(options) :
        LET picked == PickLeft(options, options[i].id)
        IN  /\ Len(AfterLeftChange(inflight, selectedLeft, picked)) <= MaxInFlight
            /\ selectedLeft' = picked
            /\ inflight' = AfterLeftChange(inflight, selectedLeft, picked)
            /\ UNCHANGED <<call, result, options, value, optionsRight, selectedRight,
                           lastResolved, reported>>

\* A query's response arrives: setOptionsRight, then the effect on
\* [value.child, optionsRight].
FetchResolve ==
    \E k \in 1..Len(inflight) :
        /\ optionsRight' = OptionsAfterResponse(optionsRight, selectedLeft, inflight[k])
        /\ selectedRight' = FindRight(optionsRight', value)
        /\ inflight' = Without(inflight, k)
        /\ lastResolved' = inflight[k]
        /\ UNCHANGED <<call, result, options, value, selectedLeft, reported>>

\* A query fails: the awaited promise rejects and nothing is set.
FetchFail ==
    \E k \in 1..Len(inflight) :
        /\ inflight' = Without(inflight, k)
        /\ UNCHANGED <<call, result, options, value, optionsRight, selectedLeft,
                       selectedRight, lastResolved, reported>>

\* The right OpsSelect's onChange; it is rendered only with a parent selected and
\* child options at hand.
SelectChild ==
    /\ IdOf(selectedLeft) # ""
    /\ Len(optionsRight) > 0
    /\ \E j \in 1..Len(optionsRight) :
          /\ selectedRight' = FindRight(optionsRight, TwoStepValue("", optionsRight[j].id))
          /\ reported' = [by |-> "child", parent |-> selectedLeft.id,
                          child |-> optionsRight[j].id]
    /\ UNCHANGED <<call, result, options, value, optionsRight, selectedLeft, inflight,
                   lastResolved>>

\* The form hands the pair reported on child selection back as props.value: the
\* effects on [value.parent] and [value.child, optionsRight] run for what changed,
\* then the effect on [selectedLeft?.id].
PassBackValue ==
    LET v == TwoStepValue(reported.parent, reported.child)
        left == IF ValueField(v, "parent") = ValueField(value, "parent")
                THEN selectedLeft ELSE FindLeft(options, v)
    IN  /\ reported.by = "child"
        /\ v # value
        /\ Len(AfterLeftChange(inflight, selectedLeft, left)) <= MaxInFlight
        /\ value' = v
        /\ selectedLeft' = left
        /\ selectedRight' = IF ValueField(v, "child") = ValueField(value, "child")
                            THEN selectedRight ELSE FindRight(optionsRight, v)
        /\ inflight' = AfterLeftChange(inflight, selectedLeft, left)
        /\ UNCHANGED <<call, result, options, optionsRight, lastResolved, reported>>

NextSelect == SelectParent \/ FetchResolve \/ FetchFail \/ SelectChild \/ PassBackValue

SpecSelect == InitSelect /\ [][NextSelect]_vars

\* Both parts: a call of a form-structure function, or a mounted two-step select.
Init == InitForm \/ InitSelect

Next == NextForm \/ NextSelect

Spec == Init /\ [][Next]_vars

-----------------------------------------------------------------------------
(* Properties of OpsSelect2Step *)

\* C6 as stated: when the selected parent changes, the child options hold none of
\* the previous parent's children from that moment on, and a query for the new
\* parent is dispatched.
C6_ParentChangeDiscardsChildren ==
    [][ (IdOf(selectedLeft) # "" /\ IdOf(selectedLeft') # IdOf(selectedLeft)) =>
          /\ \A k \in 1..Len(optionsRight') :
                \A m \in 1..Len(NodeOptions(IdOf(selectedLeft))) :
                    optionsRight'[k] # NodeOptions(IdOf(selectedLeft))[m]
          /\ IdOf(selectedLeft') # "" =>
                \E q \in 1..Len(inflight') : inflight'[q] = IdOf(selectedLeft') ]_vars

\* C7: a response is applied when it arrives, whichever parent is selected by
\* then: the child options are those of the last response that resolved.
C7_LastResponseWins ==
    lastResolved # "" => optionsRight = NodeOptions(lastResolved)

\* No query is left in flight, and the child options shown are those of a parent
\* other than the selected one.
C7_Witness ==
    /\ inflight = <<>>
    /\ IdOf(selectedLeft) # ""
    /\ lastResolved # ""
    /\ lastResolved # IdOf(selectedLeft)
    /\ optionsRight # <<>>
    /\ optionsRight = NodeOptions(lastResolved)
    /\ optionsRight # NodeOptions(IdOf(selectedLeft))

\* C8 as stated: the pair reported on child selection, handed back as the value,
\* resolves to the parent option and the child option it was reported for.
C8_ReportedPairRoundTrips ==
    (reported.by = "child" /\ value = TwoStepValue(reported.parent, reported.child)) =>
        /\ IdOf(selectedLeft) = reported.parent
        /\ optionsRight = NodeOptions(reported.parent) => IdOf(selectedRight) = reported.child

\* C10 as stated: the child of a pair reported on child selection is one of the
\* options the server holds for the pair's parent.
C10_ReportedChildBelongsToParent ==
    reported.by = "child" =>
        \E k \in 1..Len(NodeOptions(reported.parent)) :
            NodeOptions(reported.parent)[k].id = reported.child

====
